---- MODULE Spec2Model ----
(***************************************************************************)
(* The authoritative game server (server.js): the players map, the         *)
(* collectible list, the collectible id counter, and the three socket      *)
(* handlers (connection, movement, disconnect) with the events they emit.  *)
(* Every handler runs to completion (Node's single-threaded event loop),   *)
(* so each handler is one atomic action.  The client (public/game.mjs) is  *)
(* modelled by its socket handlers and the mirror they maintain.           *)
(***************************************************************************)
EXTENDS Integers, Sequences, FiniteSets

(***************************************************************************)
(* Program constants.                                                      *)
(***************************************************************************)
MinCoord == 20
RandOffset == 20
MaxX == 620
MaxY == 460
RandXRange == 600
RandYRange == 440
RandValueRange == 5
DefaultSpeed == 4
Radius == 20
InitialCollectibles == 3

(***************************************************************************)
(* Bounds of the model.                                                    *)
(***************************************************************************)
MaxSockets == 2
MaxMoves == 2

Sockets == 1..MaxSockets

(***************************************************************************)
(* Inputs.  A random draw holds the values of successive Math.random()     *)
(* calls, in thousandths: 975 stands for 0.975.                            *)
(***************************************************************************)
CollectibleDraws ==
  { <<975, 0, 400>>,   \* (605, 20) value 3
    <<980, 37, 0>> }   \* (608, 36) value 1: at distance exactly 20 of (620, 20)

\* The draws of the three start-up collectibles.
InitDraws ==
  { << <<975, 0, 400>>, <<980, 37, 0>>, <<975, 0, 400>> >>,
    << <<980, 37, 0>>, <<975, 0, 400>>, <<980, 37, 0>> >> }

PlayerDraws ==
  { <<0, 0>>,          \* (20, 20): the smallest draws
    <<999, 999>> }     \* (619, 459): the largest draws

\* The intents a client may send: an intent is a record holding only the
\* fields that are present in the message.
Intents ==
  { [x |-> 600, y |-> 35],      \* within 20 of (605, 20) and of (608, 36)
    [x |-> 1000, y |-> -3],     \* clamped to (620, 20)
    [direction |-> "up", speed |-> -700],
    [direction |-> "down", speed |-> 600],
    [direction |-> "left", speed |-> 600],
    [direction |-> "right", speed |-> 0],
    [deltaX |-> 4, deltaY |-> 0] }

VARIABLES
  players,            \* players: socket id -> player record, for the ids in the map
  collectibles,       \* collectibles: the list of collectible records
  nextCollectibleId,  \* the id counter
  status,             \* the transport's state of every socket
  sent,               \* the events emitted by the last handler, in order
  lastEvent,          \* the inbound event the last handler handled
  issued,             \* history: every id createCollectible has issued, in order
  moves,              \* number of movement events handled
  inbox,              \* per client: the events sent to it and not yet handled, in order
  mirror              \* per client: the state its socket handlers maintain

vars == <<players, collectibles, nextCollectibleId, status, sent, lastEvent, issued, moves,
          inbox, mirror>>

Max(a, b) == IF a >= b THEN a ELSE b
Min(a, b) == IF a <= b THEN a ELSE b
Has(data, f) == f \in DOMAIN data

\* Math.floor(Math.random() * n), for Math.random() = r / 1000.
RandomInt(r, n) == (r * n) \div 1000

\* Deleting one element at (1-based) index i: collectibles.splice(i, 1).
Splice(seq, i) == [j \in 1..(Len(seq) - 1) |-> IF j < i THEN seq[j] ELSE seq[j + 1]]

\* createCollectible with `id: nextCollectibleId` (the increment forgotten).
createCollectibleNoIncrement(draw, counter) ==
  [ item |-> [x |-> RandomInt(draw[1], RandXRange) + RandOffset,
              y |-> RandomInt(draw[2], RandYRange) + RandOffset,
              value |-> RandomInt(draw[3], RandValueRange) + 1,
              id |-> counter],
    next |-> counter ]

\* createCollectible with `value: Math.floor(Math.random() * 5)` (the + 1 forgotten).
createCollectibleValueFromZero(draw, counter) ==
  [ item |-> [x |-> RandomInt(draw[1], RandXRange) + RandOffset,
              y |-> RandomInt(draw[2], RandYRange) + RandOffset,
              value |-> RandomInt(draw[3], RandValueRange),
              id |-> counter],
    next |-> counter + 1 ]

(***************************************************************************)
(* createCollectible: the record built from one random draw and the        *)
(* counter; the caller stores `next` back (nextCollectibleId++).           *)
(***************************************************************************)
createCollectible(draw, counter) ==
  [ item |-> [x |-> RandomInt(draw[1], RandXRange) + RandOffset,
              y |-> RandomInt(draw[2], RandYRange) + RandOffset,
              value |-> RandomInt(draw[3], RandValueRange) + 1,
              id |-> counter],
    next |-> counter + 1 ]

\* The new player record with the +20 margin of the position forgotten.
newPlayerNoMargin(draw, sid) ==
  [x |-> RandomInt(draw[1], RandXRange), y |-> RandomInt(draw[2], RandYRange),
   score |-> 0, id |-> sid]

\* The new player record with a fixed id in place of socket.id.
newPlayerFixedId(draw, sid) ==
  [x |-> RandomInt(draw[1], RandXRange) + RandOffset,
   y |-> RandomInt(draw[2], RandYRange) + RandOffset,
   score |-> 0, id |-> 0]

newPlayer(draw, sid) ==
  [x |-> RandomInt(draw[1], RandXRange) + RandOffset,
   y |-> RandomInt(draw[2], RandYRange) + RandOffset,
   score |-> 0, id |-> sid]

(***************************************************************************)
(* Addressing of socket.io emits.                                          *)
(***************************************************************************)
Connected(st) == {t \in Sockets : st[t] = "Active"}
SocketEmit(s) == {s}
\* socket.broadcast.emit written as io.emit: the sender is addressed too.
BroadcastEmitAll(st, s) == Connected(st)

BroadcastEmit(st, s) == Connected(st) \ {s}
IoEmit(st) == Connected(st)

Emit(ev, payload, to) == [event |-> ev, data |-> payload, to |-> to]

(***************************************************************************)
(* The client at page load: players = {}, collectibles = [],               *)
(* currentPlayer = null (the empty sequence; an object is a sequence of    *)
(* one record).                                                            *)
(***************************************************************************)
ClientStart == [players |-> <<>>, collectibles |-> <<>>, currentPlayer |-> <<>>]

ClientsInit ==
  /\ inbox = [c \in Sockets |-> <<>>]
  /\ mirror = [c \in Sockets |-> ClientStart]

(***************************************************************************)
(* World initialisation: the counter starts at 1 and the start-up loop     *)
(* pushes InitialCollectibles collectibles.                                *)
(***************************************************************************)
RECURSIVE initCollectibles(_, _, _)
initCollectibles(i, draws, st) ==
  IF i > InitialCollectibles THEN st
  ELSE LET created == createCollectible(draws[i], st.next)
       IN initCollectibles(i + 1, draws,
            [collectibles |-> Append(st.collectibles, created.item),
             next |-> created.next,
             issued |-> Append(st.issued, created.item.id)])

Init ==
  \E draws \in InitDraws :
    LET st == initCollectibles(1, draws, [collectibles |-> <<>>, next |-> 1, issued |-> <<>>])
    IN /\ players = <<>>
       /\ collectibles = st.collectibles
       /\ nextCollectibleId = st.next
       /\ issued = st.issued
       /\ status = [s \in Sockets |-> "Connecting"]
       /\ sent = <<>>
       /\ lastEvent = [kind |-> "start"]
       /\ moves = 0
       /\ ClientsInit

\* The connection handler emitting init before `players[socket.id] = newPlayer`.
ConnectInitBeforeStore(s) ==
  /\ status[s] = "Connecting"
  /\ \A t \in Sockets : t < s => status[t] # "Connecting"
  /\ \E draw \in PlayerDraws :
       LET np == newPlayer(draw, s)
           map == [t \in DOMAIN players \cup {s} |-> IF t = s THEN np ELSE players[t]]
           st == [status EXCEPT ![s] = "Active"]
       IN /\ players' = map
          /\ status' = st
          /\ sent' = << Emit("init", [id |-> s, players |-> players, collectibles |-> collectibles],
                             SocketEmit(s)),
                        Emit("new-player", np, BroadcastEmit(st, s)) >>
  /\ lastEvent' = [kind |-> "connection", socket |-> s]
  /\ UNCHANGED <<collectibles, nextCollectibleId, issued, moves>>

(***************************************************************************)
(* io.on('connection'): the transport hands over a fresh socket.  Socket   *)
(* ids are opaque, so the sockets connect in the order of their numbers.   *)
(***************************************************************************)
connectHandler(s, draws) ==
  /\ status[s] = "Connecting"
  /\ \A t \in Sockets : t < s => status[t] # "Connecting"
  /\ \E draw \in draws :
       LET np == newPlayer(draw, s)
           map == [t \in DOMAIN players \cup {s} |-> IF t = s THEN np ELSE players[t]]
           st == [status EXCEPT ![s] = "Active"]
       IN /\ players' = map
          /\ status' = st
          /\ sent' = << Emit("init", [id |-> s, players |-> map, collectibles |-> collectibles],
                             SocketEmit(s)),
                        Emit("new-player", np, BroadcastEmit(st, s)) >>
  /\ lastEvent' = [kind |-> "connection", socket |-> s]
  /\ UNCHANGED <<collectibles, nextCollectibleId, issued, moves>>

Connect(s) == connectHandler(s, PlayerDraws)

\* The position update with `||` in place of `&&` and each field applied on its
\* own: a lone x or a lone y is taken as an absolute coordinate.
updatePositionEitherField(player, data) ==
  IF Has(data, "x") \/ Has(data, "y")
  THEN [player EXCEPT !.x = IF Has(data, "x") THEN Max(MinCoord, Min(MaxX, data.x)) ELSE @,
                      !.y = IF Has(data, "y") THEN Max(MinCoord, Min(MaxY, data.y)) ELSE @]
  ELSE LET speed == IF Has(data, "speed") /\ data.speed # 0 THEN data.speed ELSE DefaultSpeed
           direction == IF Has(data, "direction") THEN data.direction ELSE "undefined"
       IN CASE direction = "up" -> [player EXCEPT !.y = Max(MinCoord, player.y - speed)]
            [] direction = "down" -> [player EXCEPT !.y = Min(MaxY, player.y + speed)]
            [] direction = "left" -> [player EXCEPT !.x = Max(MinCoord, player.x - speed)]
            [] direction = "right" -> [player EXCEPT !.x = Min(MaxX, player.x + speed)]
            [] OTHER -> player

\* The position update with the two branches in the other order: the direction
\* switch runs whenever a direction is present, the x/y branch only otherwise.
updatePositionDirectionFirst(player, data) ==
  IF Has(data, "direction")
  THEN LET speed == IF Has(data, "speed") /\ data.speed # 0 THEN data.speed ELSE DefaultSpeed
           direction == data.direction
       IN CASE direction = "up" -> [player EXCEPT !.y = Max(MinCoord, player.y - speed)]
            [] direction = "down" -> [player EXCEPT !.y = Min(MaxY, player.y + speed)]
            [] direction = "left" -> [player EXCEPT !.x = Max(MinCoord, player.x - speed)]
            [] direction = "right" -> [player EXCEPT !.x = Min(MaxX, player.x + speed)]
            [] OTHER -> player
  ELSE IF Has(data, "x") /\ Has(data, "y")
       THEN [player EXCEPT !.x = Max(MinCoord, Min(MaxX, data.x)),
                           !.y = Max(MinCoord, Min(MaxY, data.y))]
       ELSE player

(***************************************************************************)
(* socket.on('movement'): position update, then the collision loop, then   *)
(* the player-update broadcast.                                            *)
(***************************************************************************)
updatePosition(player, data) ==
  IF Has(data, "x") /\ Has(data, "y")
  THEN [player EXCEPT !.x = Max(MinCoord, Min(MaxX, data.x)),
                      !.y = Max(MinCoord, Min(MaxY, data.y))]
  ELSE LET speed == IF Has(data, "speed") /\ data.speed # 0 THEN data.speed ELSE DefaultSpeed
           direction == IF Has(data, "direction") THEN data.direction ELSE "undefined"
       IN CASE direction = "up" -> [player EXCEPT !.y = Max(MinCoord, player.y - speed)]
            [] direction = "down" -> [player EXCEPT !.y = Min(MaxY, player.y + speed)]
            [] direction = "left" -> [player EXCEPT !.x = Max(MinCoord, player.x - speed)]
            [] direction = "right" -> [player EXCEPT !.x = Min(MaxX, player.x + speed)]
            [] OTHER -> player

\* Math.sqrt(dx^2 + dy^2) < 20, on integers the same as dx^2 + dy^2 < 20^2.
Dist2(a, b) == (a.x - b.x) * (a.x - b.x) + (a.y - b.y) * (a.y - b.y)
\* The collision test with `distance <= 20`.
CollidesInclusive(player, collectible) == Dist2(player, collectible) <= Radius * Radius

Collides(player, collectible) == Dist2(player, collectible) < Radius * Radius

\* The pickup without `collectibles.push(createCollectible())`.
pickupNoPush(st, i, draw, sid, to) ==
  LET collectible == st.collectibles[i]
      scored == [st.player EXCEPT !.score = @ + collectible.value]
      created == createCollectible(draw, st.next)
  IN [ player |-> scored,
       collectibles |-> Splice(st.collectibles, i),
       next |-> created.next,
       issued |-> Append(st.issued, created.item.id),
       sent |-> Append(st.sent,
                  Emit("collectible-update",
                       [collected |-> collectible.id,
                        new |-> created.item,
                        player |-> [id |-> sid, score |-> scored.score]],
                       to)) ]

\* The pickup with `player.score = collectible.value`.
pickupScoreSet(st, i, draw, sid, to) ==
  LET collectible == st.collectibles[i]
      scored == [st.player EXCEPT !.score = collectible.value]
      created == createCollectible(draw, st.next)
      list == Append(Splice(st.collectibles, i), created.item)
  IN [ player |-> scored,
       collectibles |-> list,
       next |-> created.next,
       issued |-> Append(st.issued, created.item.id),
       sent |-> Append(st.sent,
                  Emit("collectible-update",
                       [collected |-> collectible.id,
                        new |-> list[Len(list)],
                        player |-> [id |-> sid, score |-> scored.score]],
                       to)) ]

\* The pickup whose event is built before `player.score += collectible.value`.
pickupStaleScore(st, i, draw, sid, to) ==
  LET collectible == st.collectibles[i]
      scored == [st.player EXCEPT !.score = @ + collectible.value]
      created == createCollectible(draw, st.next)
      list == Append(Splice(st.collectibles, i), created.item)
  IN [ player |-> scored,
       collectibles |-> list,
       next |-> created.next,
       issued |-> Append(st.issued, created.item.id),
       sent |-> Append(st.sent,
                  Emit("collectible-update",
                       [collected |-> collectible.id,
                        new |-> list[Len(list)],
                        player |-> [id |-> sid, score |-> st.player.score]],
                       to)) ]

\* The body of `if (distance < 20)` for the collectible at index i.
pickup(st, i, draw, sid, to) ==
  LET collectible == st.collectibles[i]
      scored == [st.player EXCEPT !.score = @ + collectible.value]
      created == createCollectible(draw, st.next)
      list == Append(Splice(st.collectibles, i), created.item)
  IN [ player |-> scored,
       collectibles |-> list,
       next |-> created.next,
       issued |-> Append(st.issued, created.item.id),
       sent |-> Append(st.sent,
                  Emit("collectible-update",
                       [collected |-> collectible.id,
                        new |-> list[Len(list)],
                        player |-> [id |-> sid, score |-> scored.score]],
                       to)) ]

\* The loop written forwards, for (i = 0; i < length; i++): the i-th step
\* from the start examines index Len - i + 1, so the element that follows a
\* spliced one is skipped and the replacements at the end are examined.
RECURSIVE collisionLoopForward(_, _, _, _, _)
collisionLoopForward(i, st, sid, to, draws) ==
  IF i < 1 THEN {st}
  ELSE LET k == Len(st.collectibles) - i + 1
       IN IF Collides(st.player, st.collectibles[k])
          THEN UNION { collisionLoopForward(i - 1, pickup(st, k, draw, sid, to), sid, to, draws) :
                       draw \in draws }
          ELSE collisionLoopForward(i - 1, st, sid, to, draws)

\* for (i = length - 1; i >= 0; i--): the set of outcomes over the random
\* draws of the replacements, each taken from the set draws.
RECURSIVE collisionLoop(_, _, _, _, _)
collisionLoop(i, st, sid, to, draws) ==
  IF i < 1 THEN {st}
  ELSE IF Collides(st.player, st.collectibles[i])
       THEN UNION { collisionLoop(i - 1, pickup(st, i, draw, sid, to), sid, to, draws) :
                    draw \in draws }
       ELSE collisionLoop(i - 1, st, sid, to, draws)

\* The movement handler with `players[socket.id] = players[socket.id] || {...}`
\* in place of the guard: an absent record is created.
movementHandlerAutoCreate(s, data, draws) ==
  /\ IF s \in DOMAIN players
     THEN LET moved == updatePosition(players[s], data)
              start == [player |-> moved, collectibles |-> collectibles,
                        next |-> nextCollectibleId, issued |-> issued, sent |-> <<>>]
          IN \E r \in collisionLoop(Len(collectibles), start, s, IoEmit(status), draws) :
               /\ players' = [players EXCEPT ![s] = r.player]
               /\ collectibles' = r.collectibles
               /\ nextCollectibleId' = r.next
               /\ issued' = r.issued
               /\ sent' = Append(r.sent,
                            Emit("player-update",
                                 [id |-> s, x |-> r.player.x, y |-> r.player.y,
                                  score |-> r.player.score],
                                 BroadcastEmit(status, s)))
     ELSE /\ players' = [t \in DOMAIN players \cup {s} |->
                           IF t = s THEN [x |-> MinCoord, y |-> MinCoord, score |-> 0, id |-> s]
                           ELSE players[t]]
          /\ UNCHANGED <<collectibles, nextCollectibleId, issued>>
          /\ sent' = <<>>
  /\ lastEvent' = [kind |-> "movement", socket |-> s, data |-> data]
  /\ moves' = moves + 1
  /\ UNCHANGED status

\* The movement handler with the player-update broadcast placed before the
\* collision loop.
movementHandlerUpdateFirst(s, data, draws) ==
  /\ IF s \in DOMAIN players
     THEN LET moved == updatePosition(players[s], data)
              start == [player |-> moved, collectibles |-> collectibles,
                        next |-> nextCollectibleId, issued |-> issued, sent |-> <<>>]
          IN \E r \in collisionLoop(Len(collectibles), start, s, IoEmit(status), draws) :
               /\ players' = [players EXCEPT ![s] = r.player]
               /\ collectibles' = r.collectibles
               /\ nextCollectibleId' = r.next
               /\ issued' = r.issued
               /\ sent' = << Emit("player-update",
                                  [id |-> s, x |-> moved.x, y |-> moved.y,
                                   score |-> moved.score],
                                  BroadcastEmit(status, s)) >> \o r.sent
     ELSE /\ UNCHANGED <<players, collectibles, nextCollectibleId, issued>>
          /\ sent' = <<>>
  /\ lastEvent' = [kind |-> "movement", socket |-> s, data |-> data]
  /\ moves' = moves + 1
  /\ UNCHANGED status

\* The body of the movement handler, from `if (players[socket.id])` on.
movementHandler(s, data, draws) ==
  /\ IF s \in DOMAIN players
     THEN LET moved == updatePosition(players[s], data)
              start == [player |-> moved, collectibles |-> collectibles,
                        next |-> nextCollectibleId, issued |-> issued, sent |-> <<>>]
          IN \E r \in collisionLoop(Len(collectibles), start, s, IoEmit(status), draws) :
               /\ players' = [players EXCEPT ![s] = r.player]
               /\ collectibles' = r.collectibles
               /\ nextCollectibleId' = r.next
               /\ issued' = r.issued
               /\ sent' = Append(r.sent,
                            Emit("player-update",
                                 [id |-> s, x |-> r.player.x, y |-> r.player.y,
                                  score |-> r.player.score],
                                 BroadcastEmit(status, s)))
     ELSE /\ UNCHANGED <<players, collectibles, nextCollectibleId, issued>>
          /\ sent' = <<>>
  /\ lastEvent' = [kind |-> "movement", socket |-> s, data |-> data]
  /\ moves' = moves + 1
  /\ UNCHANGED status

\* The transport delivers movement events of connected sockets.
Movement(s, data) ==
  /\ status[s] = "Active"
  /\ moves < MaxMoves
  /\ movementHandler(s, data, CollectibleDraws)

\* The disconnect handler without `delete players[socket.id]`.
DisconnectNoDelete(s) ==
  /\ status[s] = "Active"
  /\ LET st == [status EXCEPT ![s] = "Disconnected"]
     IN /\ status' = st
        /\ players' = players
        /\ sent' = << Emit("player-disconnect", s, BroadcastEmit(st, s)) >>
  /\ lastEvent' = [kind |-> "disconnect", socket |-> s]
  /\ UNCHANGED <<collectibles, nextCollectibleId, issued, moves>>

(***************************************************************************)
(* socket.on('disconnect'): the body of the handler, emitting to the       *)
(* sockets connected in st, and the event as the transport raises it.      *)
(***************************************************************************)
disconnectHandler(s, st) ==
  /\ players' = [t \in DOMAIN players \ {s} |-> players[t]]
  /\ sent' = << Emit("player-disconnect", s, BroadcastEmit(st, s)) >>
  /\ lastEvent' = [kind |-> "disconnect", socket |-> s]
  /\ UNCHANGED <<collectibles, nextCollectibleId, issued, moves>>

Disconnect(s) ==
  /\ status[s] = "Active"
  /\ LET st == [status EXCEPT ![s] = "Disconnected"]
     IN /\ status' = st
        /\ disconnectHandler(s, st)

\* The server taken alone: the clients are left out and stay as at page load.
NoClients == UNCHANGED <<inbox, mirror>>

Next ==
  \/ \E s \in Sockets : Connect(s) /\ NoClients
  \/ \E s \in Sockets, data \in Intents : Movement(s, data) /\ NoClients
  \/ \E s \in Sockets : Disconnect(s) /\ NoClients

Spec == Init /\ [][Next]_vars

(***************************************************************************)
(* The handlers invoked for a socket that has no player record any more:   *)
(* a movement that arrives after the disconnect, a second disconnect.  The *)
(* transport does not raise these; the handlers are written to tolerate    *)
(* them.                                                                   *)
(***************************************************************************)
StaleIntents ==
  { [x |-> 600, y |-> 35],
    [direction |-> "up", speed |-> -700] }

StaleMovement(s, data) ==
  /\ status[s] = "Disconnected"
  /\ moves < MaxMoves
  /\ movementHandler(s, data, CollectibleDraws)

StaleDisconnect(s) ==
  /\ status[s] = "Disconnected"
  /\ UNCHANGED status
  /\ disconnectHandler(s, status)

NextStale ==
  \/ \E s \in Sockets : Connect(s) /\ NoClients
  \/ \E s \in Sockets, data \in Intents : Movement(s, data) /\ NoClients
  \/ \E s \in Sockets : Disconnect(s) /\ NoClients
  \/ \E s \in Sockets, data \in StaleIntents : StaleMovement(s, data) /\ NoClients
  \/ \E s \in Sockets : StaleDisconnect(s) /\ NoClients

SpecStale == Init /\ [][NextStale]_vars

(***************************************************************************)
(* One session with the whole range of inputs: the extreme random draws    *)
(* and intents with every combination of present fields.                   *)
(***************************************************************************)
WideCollectibleDraws ==
  { <<0, 0, 0>>,          \* (20, 20) value 1: the smallest draws
    <<999, 999, 999>>,    \* (619, 459) value 5: the largest draws
    <<500, 500, 500>> }   \* (320, 240) value 3

WideInitDraws ==
  { << <<0, 0, 0>>, <<999, 999, 999>>, <<500, 500, 500>> >>,
    << <<999, 999, 999>>, <<975, 0, 400>>, <<0, 0, 0>> >> }

WideIntents ==
  { [x |-> 300],                                   \* x without y
    [y |-> 300],                                   \* y without x
    [direction |-> "north", speed |-> 5],          \* a direction the switch does not know
    [speed |-> 9],                                 \* a speed alone
    [deltaX |-> 4, deltaY |-> 0],                  \* the deltas alone
    [x |-> 300, direction |-> "jump"],
    [x |-> 600, y |-> 35, direction |-> "up", speed |-> 50],
    [x |-> 19, y |-> 461, deltaX |-> 7, deltaY |-> -7],
    [x |-> 620, y |-> 460],
    [x |-> 20, y |-> 20],
    [x |-> 621, y |-> 19, speed |-> 3],
    [x |-> -5, y |-> 5000, direction |-> "left"],
    [x |-> 300, direction |-> "left", speed |-> 5],
    [direction |-> "down"] }

InitWide ==
  \E draws \in WideInitDraws :
    LET st == initCollectibles(1, draws, [collectibles |-> <<>>, next |-> 1, issued |-> <<>>])
    IN /\ players = <<>>
       /\ collectibles = st.collectibles
       /\ nextCollectibleId = st.next
       /\ issued = st.issued
       /\ status = [s \in Sockets |-> "Connecting"]
       /\ sent = <<>>
       /\ lastEvent = [kind |-> "start"]
       /\ moves = 0
       /\ ClientsInit

WideMovement(s, data) ==
  /\ status[s] = "Active"
  /\ moves < MaxMoves
  /\ movementHandler(s, data, WideCollectibleDraws)

NextWide ==
  \/ Connect(1) /\ NoClients
  \/ \E data \in WideIntents : WideMovement(1, data) /\ NoClients
  \/ Disconnect(1) /\ NoClients

SpecWide == InitWide /\ [][NextWide]_vars

(***************************************************************************)
(* The client's socket handlers (public/game.mjs).  m is the client's      *)
(* state, c its socket.id.  A field that is undefined in the object is     *)
(* absent from the record.  The render loop's interpolation writes only    *)
(* the x and y of other players' records that have a target, and the       *)
(* local movement only the client's own x and y; neither is modelled.      *)
(***************************************************************************)
\* new Player({x, y, score, id})
PlayerObject(r) == [x |-> r.x, y |-> r.y, score |-> r.score, id |-> r.id]

\* obj[f] = v, for a field that may be absent.
SetField(obj, f, v) == [g \in DOMAIN obj \cup {f} |-> IF g = f THEN v ELSE obj[g]]

onInit(m, data) ==
  [players |-> data.players,
   collectibles |-> data.collectibles,
   currentPlayer |-> << PlayerObject(data.players[data.id]) >>]

onNewPlayer(m, playerData) ==
  [m EXCEPT !.players = [p \in DOMAIN m.players \cup {playerData.id} |->
                           IF p = playerData.id THEN playerData ELSE m.players[p]]]

onPlayerUpdate(m, data) ==
  IF data.id \in DOMAIN m.players
  THEN LET old == m.players[data.id]
           aimed == SetField(SetField(SetField(old, "targetX", data.x), "targetY", data.y),
                             "score", data.score)
           snapped == IF ~Has(aimed, "x") \/ ~Has(aimed, "y")
                      THEN SetField(SetField(aimed, "x", data.x), "y", data.y)
                      ELSE aimed
       IN [m EXCEPT !.players = [m.players EXCEPT ![data.id] = snapped]]
  ELSE m

onPlayerDisconnect(m, playerId) ==
  [m EXCEPT !.players = [p \in DOMAIN m.players \ {playerId} |-> m.players[p]]]

\* The collectible-update handler without the update of the players map:
\* the score goes to currentPlayer only.
onCollectibleUpdateOwnScoreOnly(m, data, c) ==
  LET kept == SelectSeq(m.collectibles, LAMBDA item : item.id # data.collected)
      list == Append(kept, data.new)
      own == IF data.player.id = c /\ Len(m.currentPlayer) = 1
             THEN << SetField(m.currentPlayer[1], "score", data.player.score) >>
             ELSE m.currentPlayer
  IN [players |-> m.players, collectibles |-> list, currentPlayer |-> own]

onCollectibleUpdate(m, data, c) ==
  LET kept == SelectSeq(m.collectibles, LAMBDA item : item.id # data.collected)
      list == Append(kept, data.new)
      map == IF data.player.id \in DOMAIN m.players
             THEN [m.players EXCEPT ![data.player.id] = SetField(@, "score", data.player.score)]
             ELSE m.players
      own == IF data.player.id = c /\ Len(m.currentPlayer) = 1
             THEN << SetField(m.currentPlayer[1], "score", data.player.score) >>
             ELSE m.currentPlayer
  IN [players |-> map, collectibles |-> list, currentPlayer |-> own]

\* socket.on(...): the handler registered for the event.
clientHandle(m, e, c) ==
  CASE e.event = "init" -> onInit(m, e.data)
    [] e.event = "new-player" -> onNewPlayer(m, e.data)
    [] e.event = "player-update" -> onPlayerUpdate(m, e.data)
    [] e.event = "player-disconnect" -> onPlayerDisconnect(m, e.data)
    [] e.event = "collectible-update" -> onCollectibleUpdate(m, e.data, c)

(***************************************************************************)
(* The transport: the events of a handler are appended, in the order of    *)
(* the emits, to the queue of every client they are addressed to; a client *)
(* that is not connected has no queue and no page.                         *)
(***************************************************************************)
Transport ==
  /\ inbox' = [c \in Sockets |->
                 IF status'[c] = "Active"
                 THEN inbox[c] \o SelectSeq(sent', LAMBDA e : c \in e.to)
                 ELSE <<>>]
  /\ mirror' = [c \in Sockets |-> IF status'[c] = "Active" THEN mirror[c] ELSE ClientStart]

\* Client c handles the oldest event of its queue.
Deliver(c) ==
  /\ status[c] = "Active"
  /\ inbox[c] # <<>>
  /\ mirror' = [mirror EXCEPT ![c] = clientHandle(@, Head(inbox[c]), c)]
  /\ inbox' = [inbox EXCEPT ![c] = Tail(@)]
  /\ UNCHANGED <<players, collectibles, nextCollectibleId, status, sent, lastEvent,
                 issued, moves>>

\* The inputs of the sessions with clients: every player spawns at (20, 20),
\* every movement goes to (600, 35), within 20 of the collectibles at
\* (605, 20) and (608, 36), and every replacement spawns at (605, 20).
MirrorPlayerDraws == { <<0, 0>> }
MirrorDraws == { <<975, 0, 400>> }
MirrorIntents == { [x |-> 600, y |-> 35] }

MirrorConnect(s) == connectHandler(s, MirrorPlayerDraws)

MirrorMovement(s, data) ==
  /\ status[s] = "Active"
  /\ moves < MaxMoves
  /\ movementHandler(s, data, MirrorDraws)

NextMirror ==
  \/ \E s \in Sockets : MirrorConnect(s) /\ Transport
  \/ \E s \in Sockets, data \in MirrorIntents : MirrorMovement(s, data) /\ Transport
  \/ \E s \in Sockets : Disconnect(s) /\ Transport
  \/ \E c \in Sockets : Deliver(c)

SpecMirror == Init /\ [][NextMirror]_vars

(***************************************************************************)
(* Helper operators of the properties.                                     *)
(***************************************************************************)
Ids(seq) == {seq[i].id : i \in 1..Len(seq)}
EventsOf(out, ev) == SelectSeq(out, LAMBDA e : e.event = ev)
SqDist(ax, ay, bx, by) == (ax - bx) * (ax - bx) + (ay - by) * (ay - by)

Active == {t \in Sockets : status[t] = "Active"}

\* The sum of the values of the collectibles of seq whose id is in S.
RECURSIVE SumValues(_, _)
SumValues(seq, S) ==
  IF seq = <<>> THEN 0
  ELSE (IF Head(seq).id \in S THEN Head(seq).value ELSE 0) + SumValues(Tail(seq), S)

\* The indices of the collectibles of seq strictly within 20 of (px, py).
WithinRadius(seq, px, py) ==
  {i \in 1..Len(seq) : SqDist(px, py, seq[i].x, seq[i].y) < 400}

IsMovement == lastEvent.kind = "movement"
MovementBy(s) == /\ moves' = moves + 1
                 /\ lastEvent'.kind = "movement"
                 /\ lastEvent'.socket = s
                 /\ s \in DOMAIN players
ConnectionOf(s) == status[s] = "Connecting" /\ status'[s] = "Active"
DisconnectOf(s) == status[s] = "Active" /\ status'[s] = "Disconnected"
\* A movement or disconnect event of a socket that has no record in the store.
StaleEventOf(s) == /\ lastEvent'.kind \in {"movement", "disconnect"}
                   /\ lastEvent'.socket = s
                   /\ s \notin DOMAIN players

(***************************************************************************)
(* C1: every player record in the store has 20 <= x <= 620 and             *)
(* 20 <= y <= 460, for absolute intents and for relative intents of any    *)
(* direction and any integer speed.                                        *)
(* The relative branch clamps one side only, so a negative speed leaves    *)
(* the bounds: the statement is violated.                                  *)
(***************************************************************************)
C1_PositionInBounds ==
  \A s \in DOMAIN players :
    /\ 20 <= players[s].x /\ players[s].x <= 620
    /\ 20 <= players[s].y /\ players[s].y <= 460

(***************************************************************************)
(* C2: the collectible list always holds exactly the initial count (3),    *)
(* whatever connects, movements, pickups and disconnects have happened.    *)
(***************************************************************************)
C2_CollectibleCountConstant == Len(collectibles) = 3

\* A movement that collected two collectibles in one event.
C2_Witness ==
  /\ IsMovement
  /\ Len(EventsOf(sent, "collectible-update")) >= 2

(***************************************************************************)
(* C3: collectible ids are strictly increasing in order of issue and never *)
(* reused: each issued id is greater than every id issued before it, the   *)
(* collectibles in the store have distinct ids that were issued, the next  *)
(* id to issue is greater than all issued ones, and the counter changes    *)
(* only by one per collectible created.                                    *)
(***************************************************************************)
C3_IdsIncreasing ==
  /\ \A i, j \in 1..Len(issued) : i < j => issued[i] < issued[j]
  /\ \A i \in 1..Len(issued) : issued[i] < nextCollectibleId
  /\ \A i \in 1..Len(collectibles) : \E j \in 1..Len(issued) : collectibles[i].id = issued[j]
  /\ \A i, j \in 1..Len(collectibles) : i # j => collectibles[i].id # collectibles[j].id

C3_OnlyWriter ==
  /\ Len(issued') >= Len(issued)
  /\ SubSeq(issued', 1, Len(issued)) = issued
  /\ nextCollectibleId' = nextCollectibleId + (Len(issued') - Len(issued))

\* C3: ids are strictly increasing and never reused, in every state and step.
C3_UniqueIncreasingIds == [](C3_IdsIncreasing) /\ [][C3_OnlyWriter]_vars

\* Replacements were issued and an initial collectible is gone.
C3_Witness ==
  /\ Len(issued) >= 5
  /\ \E i \in 1..3 : issued[i] \notin Ids(collectibles)

(***************************************************************************)
(* C4: in a movement event of a registered player, a collectible that is   *)
(* in the store when the collision check starts is collected if and only   *)
(* if its squared distance to the player's position after clamping is      *)
(* strictly less than 400; at distance exactly 20 it is not collected.     *)
(***************************************************************************)
C4_PickupIffWithinRadius ==
  [][\A s \in Sockets : MovementBy(s) =>
       \A i \in 1..Len(collectibles) :
         (collectibles[i].id \notin Ids(collectibles'))
           <=> SqDist(players'[s].x, players'[s].y,
                      collectibles[i].x, collectibles[i].y) < 400]_vars

\* A raw target outside the world, clamped to a position that collects one
\* collectible and leaves an older one at distance exactly 20 in the store.
C4_Witness ==
  /\ IsMovement
  /\ Has(lastEvent.data, "x") /\ Has(lastEvent.data, "y")
  /\ lastEvent.data.x > 620
  /\ lastEvent.socket \in DOMAIN players
  /\ EventsOf(sent, "collectible-update") # <<>>
  /\ \E i \in 1..Len(collectibles) :
       /\ collectibles[i].id <= 3
       /\ SqDist(players[lastEvent.socket].x, players[lastEvent.socket].y,
                 collectibles[i].x, collectibles[i].y) = 400

(***************************************************************************)
(* C5: a player's score starts at 0, never decreases, and changes only in  *)
(* a movement event of that player's own connection, by the sum of the     *)
(* values of the collectibles collected in that event; events of other     *)
(* connections leave it unchanged.                                         *)
(***************************************************************************)
C5_ScoreOnlyByOwnPickups ==
  [][\A s \in Sockets :
       /\ (s \notin DOMAIN players /\ s \in DOMAIN players') => players'[s].score = 0
       /\ (s \in DOMAIN players /\ s \in DOMAIN players') =>
            /\ players'[s].score >= players[s].score
            /\ players'[s].score =
                 players[s].score +
                   (IF MovementBy(s)
                    THEN SumValues(collectibles, Ids(collectibles) \ Ids(collectibles'))
                    ELSE 0)]_vars

\* A pickup by one player while another player already holds a score.
C5_Witness ==
  /\ IsMovement
  /\ EventsOf(sent, "collectible-update") # <<>>
  /\ \E s, t \in DOMAIN players :
       /\ s # t
       /\ lastEvent.socket = s
       /\ players[s].score > sent[1].data.new.value
       /\ players[t].score > 0

(***************************************************************************)
(* C6: if k collectibles are within range of the mover's clamped position, *)
(* exactly those k are removed, exactly k new ones are added and exactly k *)
(* collectible-update events are emitted; each names one collected id,     *)
(* carries that pickup's own replacement, the mover's id and its score     *)
(* after that pickup, and goes to every active connection, the mover       *)
(* included.                                                               *)
(***************************************************************************)
C6_PickupsAndUpdates ==
  [][\A s \in Sockets : MovementBy(s) =>
       LET cu == EventsOf(sent', "collectible-update")
           inRange == WithinRadius(collectibles, players'[s].x, players'[s].y)
           k == Cardinality(inRange)
       IN /\ Ids(collectibles) \ Ids(collectibles') = {collectibles[i].id : i \in inRange}
          /\ Cardinality({i \in 1..Len(collectibles') :
                            collectibles'[i].id \notin Ids(collectibles)}) = k
          /\ Len(collectibles') = Len(collectibles)
          /\ Len(cu) = k
          /\ {cu[j].data.collected : j \in 1..Len(cu)} = {collectibles[i].id : i \in inRange}
          /\ \A j \in 1..Len(cu) :
               /\ cu[j].data.new.id = nextCollectibleId + j - 1
               /\ \E i \in 1..Len(collectibles') : collectibles'[i] = cu[j].data.new
               /\ cu[j].data.player.id = s
               /\ cu[j].data.player.score =
                    players[s].score +
                      SumValues(collectibles, {cu[m].data.collected : m \in 1..j})
               /\ cu[j].to = Active'
               /\ s \in cu[j].to]_vars

\* Two pickups of different values in one event, with two active connections.
C6_Witness ==
  /\ IsMovement
  /\ LET cu == EventsOf(sent, "collectible-update")
     IN /\ Len(cu) >= 2
        /\ cu[2].data.player.score - cu[1].data.player.score # cu[1].data.player.score
        /\ Cardinality(cu[1].to) = 2
        /\ cu[1].data.collected # cu[2].data.collected

(***************************************************************************)
(* C7: a connection that becomes active receives exactly one init event    *)
(* and no other connection receives it; its payload holds the new          *)
(* connection's id, every player record of the store at that instant (the  *)
(* still-connected earlier players and the new one, no disconnected one)   *)
(* and every collectible of the store, with the store's counts.  No other  *)
(* event emits an init.                                                    *)
(***************************************************************************)
C7_InitSnapshot ==
  [][/\ \A s \in Sockets : ConnectionOf(s) =>
          LET inits == EventsOf(sent', "init")
          IN /\ Len(inits) = 1
             /\ inits[1].to = {s}
             /\ inits[1].data.id = s
             /\ inits[1].data.players = players'
             /\ DOMAIN inits[1].data.players = Active'
             /\ s \in DOMAIN inits[1].data.players
             /\ \A t \in Active : /\ t \in DOMAIN inits[1].data.players
                                  /\ inits[1].data.players[t] = players[t]
             /\ \A t \in Sockets : status[t] = "Disconnected"
                                     => t \notin DOMAIN inits[1].data.players
             /\ inits[1].data.collectibles = collectibles'
             /\ Len(inits[1].data.collectibles) = Len(collectibles')
             /\ Cardinality(DOMAIN inits[1].data.players) = Cardinality(DOMAIN players')
     /\ (\A s \in Sockets : ~ConnectionOf(s)) => EventsOf(sent', "init") = <<>>]_vars

\* The second connection joins after the first one has moved and collected.
C7_Witness ==
  /\ lastEvent.kind = "connection"
  /\ lastEvent.socket = 2
  /\ sent[1].event = "init"
  /\ DOMAIN sent[1].data.players = {1, 2}
  /\ sent[1].data.players[1].score > 0
  /\ \E i \in 1..Len(sent[1].data.collectibles) : sent[1].data.collectibles[i].id > 3

(***************************************************************************)
(* C8: every movement event of a registered player emits exactly one       *)
(* player-update event, whose payload {id, x, y, score} is that player's   *)
(* record after the event's clamping and pickups; it goes to every active  *)
(* connection other than the mover and never to the mover.                 *)
(***************************************************************************)
C8_PlayerUpdate ==
  [][\A s \in Sockets : MovementBy(s) =>
       LET pu == EventsOf(sent', "player-update")
       IN /\ Len(pu) = 1
          /\ pu[1].data = [id |-> s, x |-> players'[s].x, y |-> players'[s].y,
                           score |-> players'[s].score]
          /\ pu[1].data.id = players'[s].id
          /\ pu[1].to = Active' \ {s}
          /\ s \notin pu[1].to]_vars

\* A movement with a pickup, announced to the other active connection.
C8_Witness ==
  /\ IsMovement
  /\ Len(sent) >= 2
  /\ sent[1].event = "collectible-update"
  /\ sent[Len(sent)].event = "player-update"
  /\ sent[Len(sent)].data.score > 0
  /\ sent[Len(sent)].to # {}
  /\ lastEvent.socket \in sent[1].to

(***************************************************************************)
(* C9: when a connection becomes active, one new-player event carrying the *)
(* new player's record (position in bounds, score 0, id of the connection) *)
(* goes to every connection that was already active and not to the new     *)
(* connection.                                                             *)
(***************************************************************************)
C9_NewPlayer ==
  [][\A s \in Sockets : ConnectionOf(s) =>
       LET np == EventsOf(sent', "new-player")
       IN /\ Len(np) = 1
          /\ np[1].data = players'[s]
          /\ np[1].data.id = s
          /\ np[1].data.score = 0
          /\ 20 <= np[1].data.x /\ np[1].data.x <= 620
          /\ 20 <= np[1].data.y /\ np[1].data.y <= 460
          /\ np[1].to = Active
          /\ s \notin np[1].to]_vars

\* A connection joining while another one is active.
C9_Witness ==
  /\ lastEvent.kind = "connection"
  /\ sent[2].event = "new-player"
  /\ sent[2].to # {}
  /\ sent[2].data.id = lastEvent.socket

(***************************************************************************)
(* C10: when an active connection disconnects, its record is removed from  *)
(* the store, every other record and the collectible list are unchanged,   *)
(* and a player-disconnect event with the departed id goes to every        *)
(* remaining active connection.                                            *)
(***************************************************************************)
C10_Disconnect ==
  [][\A s \in Sockets : DisconnectOf(s) =>
       LET pd == EventsOf(sent', "player-disconnect")
       IN /\ s \in DOMAIN players
          /\ DOMAIN players' = DOMAIN players \ {s}
          /\ \A t \in DOMAIN players' : players'[t] = players[t]
          /\ collectibles' = collectibles
          /\ Len(pd) = 1
          /\ pd[1].data = s
          /\ pd[1].to = Active'
          /\ s \notin pd[1].to]_vars

\* A disconnect that leaves a player with a score behind.
C10_Witness ==
  /\ lastEvent.kind = "disconnect"
  /\ lastEvent.socket \notin DOMAIN players
  /\ sent[1].event = "player-disconnect"
  /\ sent[1].to # {}
  /\ \E t \in DOMAIN players : t \in sent[1].to /\ players[t].score > 0

(***************************************************************************)
(* C11: a movement or disconnect event for a connection id that has no     *)
(* player record leaves the whole store unchanged: no record is created,   *)
(* changed or removed, and the collectible list and the id counter keep    *)
(* their values.                                                           *)
(***************************************************************************)
C11_StaleEventKeepsStore ==
  [][\A s \in Sockets : StaleEventOf(s) =>
       /\ players' = players
       /\ collectibles' = collectibles
       /\ nextCollectibleId' = nextCollectibleId]_vars

\* A movement of a disconnected socket, handled while a player with a score
\* is in the store and a collectible lies within range of the target.
C11_Witness ==
  /\ IsMovement
  /\ status[lastEvent.socket] = "Disconnected"
  /\ lastEvent.socket \notin DOMAIN players
  /\ Has(lastEvent.data, "x")
  /\ \E t \in DOMAIN players : players[t].score > 0
  /\ \E i \in 1..Len(collectibles) :
       SqDist(lastEvent.data.x, lastEvent.data.y, collectibles[i].x, collectibles[i].y) < 400

(***************************************************************************)
(* C12: a movement or disconnect event for an id that is not in the store  *)
(* sends no outbound event to any connection.                              *)
(* The disconnect handler broadcasts player-disconnect without looking at  *)
(* the store, so a second disconnect reaches the other connections: the    *)
(* statement is violated.                                                  *)
(***************************************************************************)
C12_StaleEventSilent ==
  [][\A s \in Sockets : StaleEventOf(s) =>
       \A i \in 1..Len(sent') : sent'[i].to = {}]_vars

\* The classes of intents, by the fields present.
Directions == {"up", "down", "left", "right"}
Absolute(data) == Has(data, "x") /\ Has(data, "y")
Relative(data) == ~Absolute(data) /\ Has(data, "direction") /\ data.direction \in Directions
Malformed(data) == ~Absolute(data) /\ ~(Has(data, "direction") /\ data.direction \in Directions)
\* The clamps as the statements write them: min(hi, max(lo, v)).
ClampX(v) == Min(620, Max(20, v))
ClampY(v) == Min(460, Max(20, v))

(***************************************************************************)
(* C13: a movement of a registered player whose intent carries neither     *)
(* both x and y nor one of the directions up, down, left, right changes    *)
(* neither coordinate of the player, and the handler emits nothing but the *)
(* regular collectible-update and player-update events (no error event).   *)
(***************************************************************************)
C13_MalformedIntentKeepsPosition ==
  [][\A s \in Sockets :
       (MovementBy(s) /\ Malformed(lastEvent'.data)) =>
         /\ players'[s].x = players[s].x
         /\ players'[s].y = players[s].y
         /\ \A i \in 1..Len(sent') :
              sent'[i].event \in {"collectible-update", "player-update"}]_vars

\* A movement with x alone was handled and the player is not at that x.
C13_Witness ==
  /\ IsMovement
  /\ lastEvent.socket \in DOMAIN players
  /\ Malformed(lastEvent.data)
  /\ Has(lastEvent.data, "x")
  /\ players[lastEvent.socket].x # lastEvent.data.x

(***************************************************************************)
(* C14: every collectible in the store, and every replacement announced    *)
(* in a collectible-update, has x in [20,620), y in [20,460) and a value   *)
(* in [1,5].                                                               *)
(***************************************************************************)
CollectibleInRange(c) ==
  /\ c.x \in 20..619
  /\ c.y \in 20..459
  /\ c.value \in 1..5

C14_CollectibleRanges ==
  /\ \A i \in 1..Len(collectibles) : CollectibleInRange(collectibles[i])
  /\ \A i \in 1..Len(sent) :
       sent[i].event = "collectible-update" => CollectibleInRange(sent[i].data.new)

\* The store holds a replacement made from the largest draws and a
\* collectible made from the smallest draws.
C14_Witness ==
  /\ \E i \in 1..Len(collectibles) :
       /\ collectibles[i].id > InitialCollectibles
       /\ collectibles[i].x = 619 /\ collectibles[i].y = 459 /\ collectibles[i].value = 5
  /\ \E i \in 1..Len(collectibles) :
       collectibles[i].x = 20 /\ collectibles[i].y = 20 /\ collectibles[i].value = 1

C16_AbsoluteMode ==
  [][\A s \in Sockets :
       (MovementBy(s) /\ Absolute(lastEvent'.data)) =>
         /\ players'[s].x = ClampX(lastEvent'.data.x)
         /\ players'[s].y = ClampY(lastEvent'.data.y)]_vars

\* An intent with x, y and a direction was handled: the player is at the
\* clamped target and not where the direction would have taken it.
C16_Witness ==
  /\ IsMovement
  /\ lastEvent.socket \in DOMAIN players
  /\ Absolute(lastEvent.data)
  /\ Has(lastEvent.data, "direction")
  /\ lastEvent.data.x < 20 /\ lastEvent.data.y > 460
  /\ players[lastEvent.socket].x = 20
  /\ players[lastEvent.socket].y = 460

(***************************************************************************)
(* C17: the events of one handler are emitted in order.  In a movement of  *)
(* a registered player every collectible-update precedes the player-update *)
(* which is the last event; in a connection the first event addressed to   *)
(* the new socket is init; and no event is addressed to a socket that has  *)
(* not connected yet, so init is the first event a connection receives.    *)
(***************************************************************************)
C17_EmitOrder ==
  [][/\ \A s \in Sockets :
          MovementBy(s) =>
            /\ Len(sent') >= 1
            /\ sent'[Len(sent')].event = "player-update"
            /\ \A i \in 1..(Len(sent') - 1) : sent'[i].event = "collectible-update"
     /\ \A s \in Sockets :
          ConnectionOf(s) =>
            \E i \in 1..Len(sent') :
              /\ sent'[i].event = "init"
              /\ s \in sent'[i].to
              /\ \A j \in 1..(i - 1) : s \notin sent'[j].to
     /\ \A s \in Sockets :
          status'[s] = "Connecting" => \A i \in 1..Len(sent') : s \notin sent'[i].to]_vars

\* A movement with two or more pickups whose events go to another client too.
C17_Witness ==
  /\ IsMovement
  /\ Len(sent) >= 3
  /\ sent[1].event = "collectible-update"
  /\ sent[Len(sent)].event = "player-update"
  /\ sent[Len(sent)].to # {}
  /\ sent[1].to \ {lastEvent.socket} # {}

(***************************************************************************)
(* C18: the keys of the players map are exactly the sockets in state       *)
(* Active, and the record under key s has id s.                            *)
(***************************************************************************)
C18_PlayersAreActiveSessions ==
  /\ DOMAIN players = Active
  /\ \A s \in DOMAIN players : players[s].id = s

\* One socket has disconnected and another is active, with its record.
C18_Witness ==
  /\ \E s \in Sockets : status[s] = "Disconnected" /\ s \notin DOMAIN players
  /\ \E s \in Sockets : status[s] = "Active" /\ s \in DOMAIN players /\ players[s].score > 0

(***************************************************************************)
(* C20: in a movement of a registered player each collectible that was in  *)
(* the store at the start is examined exactly once: the collected ones are *)
(* exactly those within 20 of the mover, each collected once.  Every       *)
(* replacement spawned in the event is in the store afterwards, wherever   *)
(* it spawned, and the store is the collectibles not collected plus the    *)
(* replacements.  A step that is not a movement of a registered player     *)
(* leaves the collectible list alone, so a replacement in range stays      *)
(* until a later movement, which may be one that changes no position.      *)
(***************************************************************************)
C20_LoopExaminesOriginalsOnce ==
  [][/\ \A s \in Sockets :
          MovementBy(s) =>
            LET hit == WithinRadius(collectibles, players'[s].x, players'[s].y)
                updates == EventsOf(sent', "collectible-update")
                collected == {updates[i].data.collected : i \in 1..Len(updates)}
                spawned == {updates[i].data.new : i \in 1..Len(updates)}
            IN /\ collected = {collectibles[i].id : i \in hit}
               /\ Len(updates) = Cardinality(hit)
               /\ Cardinality(spawned) = Len(updates)
               /\ \A c \in spawned :
                    /\ c.id \notin Ids(collectibles)
                    /\ \E j \in 1..Len(collectibles') : collectibles'[j] = c
               /\ Ids(collectibles') =
                    (Ids(collectibles) \ collected) \cup {c.id : c \in spawned}
     /\ (~ \E s \in Sockets : MovementBy(s)) => collectibles' = collectibles]_vars

\* The only player ever connected sent a malformed intent, and that movement
\* collected a replacement: it had spawned within 20 of the player in the
\* player's previous movement and stayed in the store.
C20_Witness ==
  /\ IsMovement
  /\ lastEvent.socket \in DOMAIN players
  /\ Malformed(lastEvent.data)
  /\ \A t \in Sockets \ {lastEvent.socket} : status[t] = "Connecting"
  /\ \E i \in 1..Len(sent) :
       /\ sent[i].event = "collectible-update"
       /\ sent[i].data.collected > InitialCollectibles

(***************************************************************************)
(* C19: a client that is connected, has handled init and has an empty      *)
(* queue agrees with the server: the same player ids, the same set of      *)
(* collectibles, the same score for every player (in its players map and   *)
(* in its currentPlayer), and for every other player the latest reported   *)
(* position (targetX, targetY when the record has them, else x, y) equal   *)
(* to the server's position.                                               *)
(***************************************************************************)
Initialised(c) == Len(mirror[c].currentPlayer) = 1
Range(seq) == {seq[i] : i \in 1..Len(seq)}

MirrorAgrees(c) ==
  LET m == mirror[c]
  IN /\ DOMAIN m.players = DOMAIN players
     /\ Range(m.collectibles) = Range(collectibles)
     /\ Len(m.collectibles) = Len(collectibles)
     /\ \A p \in DOMAIN players : m.players[p].score = players[p].score
     /\ m.currentPlayer[1].score = players[c].score
     /\ \A p \in DOMAIN players \ {c} :
          LET r == m.players[p]
          IN IF Has(r, "targetX") /\ Has(r, "targetY")
             THEN r.targetX = players[p].x /\ r.targetY = players[p].y
             ELSE r.x = players[p].x /\ r.y = players[p].y

C19_MirrorConvergence ==
  \A c \in Sockets :
    (status[c] = "Active" /\ Initialised(c) /\ inbox[c] = <<>>) => MirrorAgrees(c)

\* Two clients have handled everything sent to them: one of them has handled
\* the new-player of the other, a player-update of the other and
\* collectible-updates, and the other has a score from its pickups.
C19_Witness ==
  \E c, d \in Sockets :
    /\ c < d
    /\ status[c] = "Active" /\ Initialised(c) /\ inbox[c] = <<>>
    /\ status[d] = "Active" /\ Initialised(d) /\ inbox[d] = <<>>
    /\ d \in DOMAIN mirror[c].players
    /\ Has(mirror[c].players[d], "targetX")
    /\ mirror[c].players[d].x # mirror[c].players[d].targetX
    /\ players[d].score > 0
    /\ players[c].score > 0

====
